---- MODULE Spec2Model ----
(***************************************************************************)
(* Model of the "is it vegan" product analyzer.                            *)
(*                                                                         *)
(*   client : the VeganAnalyzer component of src/src/app/page.tsx (camera  *)
(*            lifecycle, frame capture)                                    *)
(*   relay  : the POST handler of the analyze route, whose source is       *)
(*            listed in src/README.md, lines 81-144                        *)
(*                                                                         *)
(* A click handler, the re-render it schedules and the effects of that     *)
(* render run to completion before the next event or promise callback, so  *)
(* each of them is one action.  An async function is one action per        *)
(* stretch between two awaits.                                             *)
(***************************************************************************)
EXTENDS Naturals, Sequences, FiniteSets, TLC

(* ----------------------------- bounds --------------------------------- *)

\* how often the camera UI may be opened in one behaviour; every opening
\* mounts a fresh <video> element and starts at most one startCamera call
MaxOpens == 2

\* how many requests the relay receives in one behaviour
MaxRequests == 2

\* how many files are handed to the upload input in one behaviour
MaxUploads == 2

\* how many times the user opens the camera, picks a file or presses the
\* analyze button in one behaviour of the whole application
MaxUserActions == 3

(* --------------------------- vocabulary ------------------------------- *)

\* the value of a string state that holds null
Null == "<null>"

\* streamRef.current, videoRef.current, srcObject: 0 is null, otherwise the
\* number of the startCamera call that obtained the stream, or the number
\* of the <video> element
NoRef == 0

Ids == 1..MaxOpens

\* errors a rejected promise of the platform carries (name, message)
PlatformErrors ==
    { [name |-> "NotAllowedError",  message |-> "Permission denied"],
      [name |-> "NotFoundError",    message |-> "Requested device not found"],
      [name |-> "NotReadableError", message |-> "Could not start video source"],
      [name |-> "AbortError",       message |-> "The operation was aborted"] }

ApiUnavailableError ==
    [name |-> "Error", message |-> "API de câmera não disponível neste navegador"]

VideoMissingError ==
    [name |-> "Error", message |-> "Elemento de vídeo não encontrado"]

ContextError ==
    [name |-> "Error", message |-> "Não foi possível obter o contexto do canvas"]

\* frames the camera may be showing when a photo is taken
Frames == {"frameA", "frameB"}

(* ------------------------------ state --------------------------------- *)

VARIABLES
    mounted,      \* the component is mounted
    apiAvailable, \* navigator.mediaDevices.getUserMedia exists
    image,        \* useState image: a string value, see StrVal / NullVal
    loading,      \* useState loading
    result,       \* useState result
    error,        \* useState error
    showCamera,   \* useState showCamera
    cameraError,  \* useState cameraError
    streamRef,    \* streamRef.current
    videoRef,     \* videoRef.current: the mounted <video> element
    nOpen,        \* <video> elements mounted so far
    nCall,        \* startCamera calls made so far
    call,         \* call[i]: where startCamera call i stands
    vsrc,         \* vsrc[v]: srcObject of <video> element v
    vowner,       \* vowner[v]: the call whose onloadedmetadata/onerror
                  \* handlers element v carries
    live,         \* streams with tracks that have not been stopped
    lastOp,       \* the handler or continuation that ran last
    reqs,         \* relay: the invocations of POST
    nReq,         \* relay: invocations received so far
    uploads,      \* uploads[u]: where upload u (handleImageUpload) stands
    nUp,          \* files handed to handleImageUpload so far
    fetches,      \* fetches[k]: where analyzeImage call k stands
    nFetch,       \* analyzeImage calls that sent a request so far
    imageFrom     \* where the value of image came from: "capture", or
                  \* the declared type of the uploaded file

clientVars == <<mounted, apiAvailable, image, loading, result, error,
                showCamera, cameraError, streamRef, videoRef, nOpen, nCall,
                call, vsrc, vowner, live, lastOp>>

relayVars == <<reqs, nReq>>

flowVars == <<uploads, nUp, fetches, nFetch>>

vars == <<mounted, apiAvailable, image, loading, result, error,
          showCamera, cameraError, streamRef, videoRef, nOpen, nCall,
          call, vsrc, vowner, live, lastOp, reqs, nReq,
          uploads, nUp, fetches, nFetch, imageFrom>>

(* --------------------------- string values ---------------------------- *)

\* A JavaScript value of the image field: null, or a string kept as the
\* sequence of its pieces, the separators ":", ";" and "," being pieces of
\* their own.
NullVal == [t |-> "null", s |-> << >>]

StrVal(s) == [t |-> "string", s |-> s]

\* canvas.toDataURL('image/png') of a canvas holding the picture p
PngDataUrl(p) == StrVal(<<"data", ":", "image/png", ";", "base64", ",", p>>)

\* canvas.toDataURL of a canvas of width or height 0
EmptyDataUrl == StrVal(<<"data", ":", ",">>)

(* ------------------------- camera: helpers ---------------------------- *)

\* CameraErrorMessage without the three classified cases
CameraErrorMessageUnclassified(err) ==
    "Não foi possível acessar a câmera. " \o err.message

\* page.tsx 81-91: the message the catch block of startCamera builds
CameraErrorMessage(err) ==
    "Não foi possível acessar a câmera. " \o
    ( IF err.name = "NotAllowedError"
        THEN "Por favor, certifique-se de que você concedeu permissões para a câmera."
      ELSE IF err.name = "NotFoundError"
        THEN "Nenhuma câmera encontrada no seu dispositivo."
      ELSE IF err.name = "NotReadableError"
        THEN "A câmera já está em uso por outro aplicativo."
      ELSE err.message )

\* A state setter called after the unmount changes nothing.
SetState(old, new) == IF mounted THEN new ELSE old

\* CatchStartCamera leaving the camera UI open
CatchStartCameraKeepingUi(err) ==
    /\ cameraError' = SetState(cameraError, CameraErrorMessage(err))
    /\ UNCHANGED <<showCamera, videoRef, streamRef, live, vsrc, vowner>>

\* page.tsx 78-95: the catch block of startCamera.  It sets the message and
\* closes the camera UI (the <video> element goes with it); it stops no
\* track and leaves streamRef alone.
CatchStartCamera(err) ==
    /\ cameraError' = SetState(cameraError, CameraErrorMessage(err))
    /\ showCamera' = SetState(showCamera, FALSE)
    /\ videoRef' = SetState(videoRef, NoRef)
    /\ UNCHANGED <<streamRef, live, vsrc, vowner>>

\* page.tsx 98-111: stopCamera, as the values it leaves behind.  The tracks
\* of the stream streamRef holds are stopped, not those of any other stream.
\* StopLive stopping no track
StopLiveNothing == live

StopLive == IF streamRef # NoRef THEN live \ {streamRef} ELSE live

StopVsrc == IF videoRef # NoRef THEN [vsrc EXCEPT ![videoRef] = NoRef] ELSE vsrc

\* stopCamera without its setShowCamera(false)
stopCameraKeepingUi ==
    /\ live' = StopLive
    /\ streamRef' = NoRef
    /\ vsrc' = StopVsrc
    /\ showCamera' = showCamera
    /\ cameraError' = Null
    /\ videoRef' = videoRef

stopCamera ==
    /\ live' = StopLive
    /\ streamRef' = NoRef
    /\ vsrc' = StopVsrc
    /\ showCamera' = FALSE
    /\ cameraError' = Null
    /\ videoRef' = NoRef

(* ------------------------- camera: actions ---------------------------- *)

\* page.tsx 113-119 with the effect of 20-24 and startCamera up to its first
\* await (37-56): the camera button while the camera UI is closed.  The UI
\* opens, a <video> element is mounted, and unless a stream is already held
\* startCamera runs: it clears both messages and either fails at once (no
\* camera API) or leaves a getUserMedia request pending.
OpenCamera ==
    /\ mounted /\ ~showCamera
    /\ nOpen < MaxOpens
    /\ nOpen' = nOpen + 1
    /\ UNCHANGED <<mounted, apiAvailable, image, loading, result,
                   streamRef, live, vsrc, vowner, relayVars, flowVars, imageFrom>>
    /\ IF streamRef # NoRef
         THEN /\ showCamera' = TRUE
              /\ videoRef' = nOpen + 1
              /\ lastOp' = "openCamera"
              /\ UNCHANGED <<error, cameraError, nCall, call>>
       ELSE IF ~apiAvailable
         THEN /\ error' = Null
              /\ lastOp' = "openCameraFailed"
              /\ cameraError' = CameraErrorMessage(ApiUnavailableError)
              /\ showCamera' = FALSE
              /\ videoRef' = NoRef
              /\ UNCHANGED <<nCall, call>>
       ELSE /\ showCamera' = TRUE
            /\ videoRef' = nOpen + 1
            /\ lastOp' = "openCamera"
            /\ error' = Null
            /\ cameraError' = Null
            /\ nCall' = nCall + 1
            /\ call' = [call EXCEPT ![nCall + 1] = [pc |-> "gum", video |-> NoRef]]

\* page.tsx 113-115 and 274-276: the camera button while the UI is open, or
\* the Cancel button; both run stopCamera.
CancelCamera ==
    /\ mounted /\ showCamera
    /\ stopCamera
    /\ lastOp' = "stopCamera"
    /\ UNCHANGED <<mounted, apiAvailable, image, loading, result, error,
                   nOpen, nCall, call, vowner, relayVars, flowVars, imageFrom>>

\* page.tsx 56-74: getUserMedia of call i resolves with a stream.  Without a
\* <video> element the call throws into its catch block; otherwise the
\* stream becomes the element's srcObject, the element gets the call's
\* handlers, and the call waits for playback.
GumResolve(i) ==
    /\ call[i].pc = "gum"
    /\ live' = live \cup {i}
    /\ UNCHANGED <<mounted, apiAvailable, image, loading, result, error,
                   streamRef, nOpen, nCall, relayVars, flowVars, imageFrom>>
    /\ IF videoRef = NoRef
         THEN /\ cameraError' = SetState(cameraError, CameraErrorMessage(VideoMissingError))
              /\ showCamera' = SetState(showCamera, FALSE)
              /\ call' = [call EXCEPT ![i].pc = "failed"]
              /\ lastOp' = "startCameraFailed"
              /\ UNCHANGED <<videoRef, vsrc, vowner>>
         ELSE /\ vsrc' = [vsrc EXCEPT ![videoRef] = i]
              /\ vowner' = [vowner EXCEPT ![videoRef] = i]
              /\ call' = [call EXCEPT ![i] = [pc |-> "play", video |-> videoRef]]
              /\ lastOp' = "gotStream"
              /\ UNCHANGED <<cameraError, showCamera, videoRef>>

\* page.tsx 56 and 78-95: getUserMedia of call i rejects.
GumReject(i, err) ==
    /\ call[i].pc = "gum"
    /\ CatchStartCamera(err)
    /\ call' = [call EXCEPT ![i].pc = "failed"]
    /\ lastOp' = "startCameraFailed"
    /\ UNCHANGED <<mounted, apiAvailable, image, loading, result, error,
                   nOpen, nCall, relayVars, flowVars, imageFrom>>

\* page.tsx 67-76: the element of call i, still carrying the call's handlers
\* and stream, reports its metadata and starts playing; the call stores the
\* stream in streamRef.
PlayResolve(i) ==
    /\ call[i].pc = "play"
    /\ vowner[call[i].video] = i
    /\ vsrc[call[i].video] = i
    /\ streamRef' = i
    /\ call' = [call EXCEPT ![i].pc = "started"]
    /\ lastOp' = "cameraStarted"
    /\ UNCHANGED <<mounted, apiAvailable, image, loading, result, error,
                   showCamera, cameraError, videoRef, nOpen, nCall,
                   vsrc, vowner, live, relayVars, flowVars, imageFrom>>

\* page.tsx 69-73 and 78-95: play() of call i rejects, or the element reports
\* an error.
PlayReject(i, err) ==
    /\ call[i].pc = "play"
    /\ CatchStartCamera(err)
    /\ call' = [call EXCEPT ![i].pc = "failed"]
    /\ lastOp' = "startCameraFailed"
    /\ UNCHANGED <<mounted, apiAvailable, image, loading, result, error,
                   nOpen, nCall, relayVars, flowVars, imageFrom>>

\* capturePhoto closing the camera when the canvas context cannot be created
capturePhotoClosing ==
    /\ mounted /\ showCamera
    /\ UNCHANGED <<mounted, apiAvailable, loading, result, nOpen, nCall,
                   call, vowner, relayVars, flowVars>>
    /\ IF videoRef = NoRef \/ streamRef = NoRef
         THEN /\ error' = "Câmera não está pronta"
              /\ lastOp' = "captureNotReady"
              /\ UNCHANGED <<image, imageFrom, showCamera, cameraError,
                             streamRef, videoRef, vsrc, live>>
         ELSE \/ /\ error' = "Falha ao capturar foto: " \o ContextError.message
                 /\ lastOp' = "captureFailed"
                 /\ stopCamera
                 /\ UNCHANGED <<image, imageFrom>>
              \/ /\ \E f \in Frames :
                       image' = IF vsrc[videoRef] # NoRef
                                  THEN PngDataUrl(f) ELSE EmptyDataUrl
                 /\ imageFrom' = "capture"
                 /\ stopCamera
                 /\ lastOp' = "captured"
                 /\ UNCHANGED error

\* page.tsx 121-148: the Take Photo button.
capturePhoto ==
    /\ mounted /\ showCamera
    /\ UNCHANGED <<mounted, apiAvailable, loading, result, nOpen, nCall,
                   call, vowner, relayVars, flowVars>>
    /\ IF videoRef = NoRef \/ streamRef = NoRef
         THEN /\ error' = "Câmera não está pronta"
              /\ lastOp' = "captureNotReady"
              /\ UNCHANGED <<image, imageFrom, showCamera, cameraError,
                             streamRef, videoRef, vsrc, live>>
         ELSE \/ /\ error' = "Falha ao capturar foto: " \o ContextError.message
                 /\ lastOp' = "captureFailed"
                 /\ UNCHANGED <<image, imageFrom, showCamera, cameraError,
                                streamRef, videoRef, vsrc, live>>
              \/ /\ \E f \in Frames :
                       image' = IF vsrc[videoRef] # NoRef
                                  THEN PngDataUrl(f) ELSE EmptyDataUrl
                 /\ imageFrom' = "capture"
                 /\ stopCamera
                 /\ lastOp' = "captured"
                 /\ UNCHANGED error

\* page.tsx 27-34: the component is unmounted; the cleanup stops the stream
\* streamRef holds, and the refs of the unmounted elements become null.
Unmount ==
    /\ mounted
    /\ mounted' = FALSE
    /\ live' = StopLive
    /\ streamRef' = NoRef
    /\ videoRef' = NoRef
    /\ lastOp' = "unmount"
    /\ UNCHANGED <<apiAvailable, image, loading, result, error, showCamera,
                   cameraError, nOpen, nCall, call, vsrc, vowner, relayVars, flowVars, imageFrom>>

(* --------------------------- relay: values ---------------------------- *)

\* README.md 88
SUPPORTED_FORMATS == <<"image/png", "image/jpeg", "image/gif", "image/webp">>

UndefinedVal == [t |-> "undefined", s |-> << >>]

NumberVal == [t |-> "number", s |-> <<"5">>]

\* The index of the first piece of s equal to sep, 0 when there is none.
IndexOf(s, sep) ==
    IF \E k \in 1..Len(s) : s[k] = sep
      THEN CHOOSE k \in 1..Len(s) : s[k] = sep /\ \A j \in 1..(k-1) : s[j] # sep
      ELSE 0

\* String.prototype.split(sep): the strings between the separators.
RECURSIVE Split(_, _)
Split(s, sep) ==
    IF IndexOf(s, sep) = 0
      THEN <<s>>
      ELSE <<SubSeq(s, 1, IndexOf(s, sep) - 1)>>
             \o Split(SubSeq(s, IndexOf(s, sep) + 1, Len(s)), sep)

\* a[k] of a JavaScript array of strings, k counted from 0
At(a, k) == IF k + 1 <= Len(a) THEN StrVal(a[k + 1]) ELSE UndefinedVal

\* README.md 102: image.split(';')[0].split(':')[1]
MimeTypeOf(img) == At(Split(At(Split(img.s, ";"), 0).s, ":"), 1)

\* README.md 112: image.split(',')[1]
Base64Of(img) == At(Split(img.s, ","), 1)

\* IsSupported accepting every declared type
IsSupportedAny(mime) == mime.t = "string"

\* README.md 104: SUPPORTED_FORMATS.includes(mimeType)
IsSupported(mime) ==
    /\ mime.t = "string"
    /\ \E k \in 1..Len(SUPPORTED_FORMATS) : mime.s = <<SUPPORTED_FORMATS[k]>>

\* a value inside a template literal
Interpolate(v) == IF v.t = "undefined" THEN <<"undefined">> ELSE v.s

\* README.md 127: `data:${mimeType};base64,${base64Image}`
ImageUrl(mime, b64) ==
    <<"data", ":">> \o Interpolate(mime) \o <<";", "base64", ",">> \o Interpolate(b64)

\* README.md 94: !image
Falsy(v) == v.t \in {"undefined", "null"} \/ (v.t = "string" /\ v.s = << >>)

\* README.md 122
PROMPT == "Analyze this product image and tell me if it's vegan. Consider ingredients, certifications, and any visible labels. Respond with a clear 'Yes' or 'No' followed by a brief explanation. If you are not able to read the image content please be clear about it and the only thing you should say it's to take the photo again. The answer should always be in brazilian portuguese"

\* README.md 133
MAX_TOKENS == 300

\* README.md 96, 106, 140
MsgNoImage == "No image provided"

\* Array.prototype.join(sep) of an array of strings
RECURSIVE Join(_, _)
Join(a, sep) ==
    IF Len(a) = 0 THEN ""
    ELSE IF Len(a) = 1 THEN a[1]
    ELSE a[1] \o sep \o Join(Tail(a), sep)

MsgUnsupported ==
    "Unsupported image format. Please use one of: " \o Join(SUPPORTED_FORMATS, ", ")

MsgFailed == "Failed to analyze image"

DataUri(mime, data) == <<"data", ":", mime, ";", "base64", ",", data>>

\* the strings callers put in the image field
ImageStrings ==
    { DataUri("image/png", "AAAA"), DataUri("image/jpeg", "BBBB"),
      DataUri("image/gif", "AAAA"), DataUri("image/webp", "AAAA"),
      DataUri("image/bmp", "AAAA"), DataUri("text/plain", "AAAA"),
      <<"data", ":", "image/png", ";", "charset=utf-8", ";", "base64", ",", "AAAA">>,
      <<"data", ":", ";", "base64", ",", "AAAA">>,
      <<"data", ":", "image/png", ";", "base64">>,
      <<"data", ":", "image/png", ";", "base64", ",", "AAAA", ",", "BBBB">>,
      <<"AAAA">> }

\* the request bodies: not JSON, the JSON value null, or an object whose
\* image field is absent, null, the empty string, a number or a string
Bodies ==
    { [json |-> "invalid", image |-> UndefinedVal],
      [json |-> "null", image |-> UndefinedVal] }
    \cup { [json |-> "object", image |-> v] :
             v \in {UndefinedVal, NullVal, StrVal(<< >>), NumberVal} }
    \cup { [json |-> "object", image |-> StrVal(s)] : s \in ImageStrings }

\* what the external model call comes back with: a completion with a text,
\* a completion with no choices, or a thrown error
ModelOutcomes ==
    { [kind |-> "completion", text |-> "Sim. Produto vegano."],
      [kind |-> "completion", text |-> "Tire a foto novamente."],
      [kind |-> "noChoices", text |-> "Cannot read properties of undefined (reading 'message')"],
      [kind |-> "throws", text |-> "Connection error."],
      [kind |-> "throws", text |-> "429 You exceeded your current quota"] }

NoResponse == [status |-> 0, field |-> "none", value |-> Null]

NoModelRequest == [model |-> Null, text |-> Null, url |-> << >>, max_tokens |-> 0]

IdleReq == [pc |-> "none", body |-> [json |-> "invalid", image |-> UndefinedVal],
            calls |-> 0, sent |-> NoModelRequest, resp |-> NoResponse,
            logged |-> Null,
            outcome |-> [kind |-> "none", text |-> Null]]

(* -------------------------- relay: handler ---------------------------- *)

Response(status, field, value) ==
    [status |-> status, field |-> field, value |-> value]

\* CatchPost answering with the text of the error it caught
CatchPostLeaking(req, errText) ==
    [req EXCEPT !.pc = "done",
                !.logged = errText,
                !.resp = Response(500, "error", errText)]

\* README.md 137-143: the catch block logs the error and answers 500 with
\* the fixed message.
CatchPost(req, errText) ==
    [req EXCEPT !.pc = "done",
                !.logged = errText,
                !.resp = Response(500, "error", MsgFailed)]

\* ModelRequest with a prompt of its own
ModelRequestBare(img) ==
    [model |-> "gpt-4o", text |-> "Is this product vegan?",
     url |-> ImageUrl(MimeTypeOf(img), Base64Of(img)),
     max_tokens |-> MAX_TOKENS]

\* README.md 114-134: the request handed to openai.chat.completions.create
ModelRequest(img) ==
    [model |-> "gpt-4o", text |-> PROMPT,
     url |-> ImageUrl(MimeTypeOf(img), Base64Of(img)),
     max_tokens |-> MAX_TOKENS]

\* Validate with the MIME-type check ahead of the payload check
ValidateMimeFirst(req) ==
    IF req.body.json = "invalid"
      THEN CatchPost(req, "Unexpected token in JSON")
    ELSE IF req.body.json = "null"
      THEN CatchPost(req, "Cannot destructure property 'image' of null")
    ELSE IF req.body.image.t = "string" /\ ~IsSupported(MimeTypeOf(req.body.image))
      THEN [req EXCEPT !.pc = "done",
                       !.resp = Response(400, "error", MsgUnsupported)]
    ELSE IF Falsy(req.body.image)
      THEN [req EXCEPT !.pc = "done",
                       !.resp = Response(400, "error", MsgNoImage)]
    ELSE IF req.body.image.t # "string"
      THEN CatchPost(req, "image.split is not a function")
    ELSE [req EXCEPT !.pc = "calling",
                     !.calls = req.calls + 1,
                     !.sent = ModelRequest(req.body.image)]

\* Validate with the body read outside the try block: what the reading
\* throws leaves the handler
ValidateUnguarded(req) ==
    IF req.body.json = "invalid"
      THEN [req EXCEPT !.pc = "threw", !.logged = "Unexpected token in JSON"]
    ELSE IF req.body.json = "null"
      THEN [req EXCEPT !.pc = "threw",
                       !.logged = "Cannot destructure property 'image' of null"]
    ELSE IF Falsy(req.body.image)
      THEN [req EXCEPT !.pc = "done",
                       !.resp = Response(400, "error", MsgNoImage)]
    ELSE IF req.body.image.t # "string"
      THEN CatchPost(req, "image.split is not a function")
    ELSE IF ~IsSupported(MimeTypeOf(req.body.image))
      THEN [req EXCEPT !.pc = "done",
                       !.resp = Response(400, "error", MsgUnsupported)]
    ELSE [req EXCEPT !.pc = "calling",
                     !.calls = req.calls + 1,
                     !.sent = ModelRequest(req.body.image)]

\* README.md 92-114: from the parsed body to the await of the model call
Validate(req) ==
    IF req.body.json = "invalid"
      THEN CatchPost(req, "Unexpected token in JSON")
    ELSE IF req.body.json = "null"
      THEN CatchPost(req, "Cannot destructure property 'image' of null")
    ELSE IF Falsy(req.body.image)
      THEN [req EXCEPT !.pc = "done",
                       !.resp = Response(400, "error", MsgNoImage)]
    ELSE IF req.body.image.t # "string"
      THEN CatchPost(req, "image.split is not a function")
    ELSE IF ~IsSupported(MimeTypeOf(req.body.image))
      THEN [req EXCEPT !.pc = "done",
                       !.resp = Response(400, "error", MsgUnsupported)]
    ELSE [req EXCEPT !.pc = "calling",
                     !.calls = req.calls + 1,
                     !.sent = ModelRequest(req.body.image)]

\* Settle with one more attempt after a thrown error
SettleRetrying(req, o) ==
    IF o.kind = "completion"
      THEN [req EXCEPT !.pc = "done",
                       !.resp = Response(200, "result", o.text)]
    ELSE IF o.kind = "throws" /\ req.calls < 2
      THEN [req EXCEPT !.calls = req.calls + 1]
    ELSE CatchPost(req, o.text)

\* Settle answering with the text another invocation already obtained
SettleShared(req, o) ==
    IF \E q \in 1..MaxRequests : reqs[q].resp.status = 200
      THEN [req EXCEPT !.pc = "done",
                       !.resp = reqs[CHOOSE q \in 1..MaxRequests :
                                       reqs[q].resp.status = 200].resp]
    ELSE IF o.kind = "completion"
      THEN [req EXCEPT !.pc = "done",
                       !.resp = Response(200, "result", o.text)]
      ELSE CatchPost(req, o.text)

\* README.md 114, 136-143: the model call settles with outcome o
Settle(req, o) ==
    IF o.kind = "completion"
      THEN [req EXCEPT !.pc = "done",
                       !.resp = Response(200, "result", o.text)]
      ELSE CatchPost(req, o.text)

(* -------------------------- relay: actions ---------------------------- *)

\* README.md 90-92: a request arrives and its body is being read
RelayReceive(b) ==
    /\ nReq < MaxRequests
    /\ nReq' = nReq + 1
    /\ reqs' = [reqs EXCEPT ![nReq + 1] = [IdleReq EXCEPT !.pc = "json", !.body = b]]
    /\ UNCHANGED <<clientVars, flowVars, imageFrom>>

RelayValidate(r) ==
    /\ reqs[r].pc = "json"
    /\ reqs' = [reqs EXCEPT ![r] = Validate(reqs[r])]
    /\ UNCHANGED <<nReq, clientVars, flowVars, imageFrom>>

RelaySettle(r, o) ==
    /\ reqs[r].pc = "calling"
    /\ reqs' = [reqs EXCEPT ![r] = [Settle(reqs[r], o) EXCEPT !.outcome = o]]
    /\ UNCHANGED <<nReq, clientVars, flowVars, imageFrom>>

(* --------------------------- client: upload --------------------------- *)

\* page.tsx 153: a declared type "top/sub"; the empty type has top "".
FileType(top, sub) == [top |-> top, sub |-> sub]

TypeString(t) == IF t.top = "" THEN "" ELSE t.top \o "/" \o t.sub

\* the files a user picks: their declared type and their content
Files ==
    { [type |-> FileType("image", "jpeg"), bytes |-> "jpegA"],
      [type |-> FileType("image", "png"),  bytes |-> "pngB"],
      [type |-> FileType("image", "gif"),  bytes |-> "gifB"],
      [type |-> FileType("image", "webp"), bytes |-> "webpB"],
      [type |-> FileType("image", "bmp"),  bytes |-> "bmpB"],
      [type |-> FileType("text", "plain"), bytes |-> "textC"] }

\* the picture the browser decodes from the content of a file
Decode(bytes) == IF bytes = "jpegA" THEN "picA" ELSE "picB"

\* page.tsx 182: reader.readAsDataURL(file)
ReaderResult(f) == StrVal(DataUri(TypeString(f.type), f.bytes))

\* page.tsx 154, 159
MsgNotImage == "Por favor, envie um arquivo de imagem"

MsgUnsupportedFile ==
    "Formato de imagem não suportado. Por favor, use um dos seguintes: "
      \o Join(SUPPORTED_FORMATS, ", ")

\* page.tsx 153: file.type.startsWith('image/')
IsImageFile(f) == f.type.top = "image"

\* IsSupportedFile accepting every type
IsSupportedFileAny(f) == TRUE

\* page.tsx 158: SUPPORTED_FORMATS.includes(file.type)
IsSupportedFile(f) ==
    \E k \in 1..Len(SUPPORTED_FORMATS) : TypeString(f.type) = SUPPORTED_FORMATS[k]

IdleUpload == [pc |-> "none", file |-> [type |-> FileType("", ""), bytes |-> ""]]

\* page.tsx 150-161 and 182: a file is picked.  A file that is no image, or
\* an image of another format, sets the message and is dropped; any other
\* file is handed to the FileReader.
handleImageUpload(f) ==
    /\ mounted
    /\ nUp < MaxUploads
    /\ nUp' = nUp + 1
    /\ IF ~IsImageFile(f)
         THEN /\ error' = MsgNotImage
              /\ uploads' = [uploads EXCEPT ![nUp + 1] = [pc |-> "rejected", file |-> f]]
              /\ lastOp' = "uploadRejected"
       ELSE IF ~IsSupportedFile(f)
         THEN /\ error' = MsgUnsupportedFile
              /\ uploads' = [uploads EXCEPT ![nUp + 1] = [pc |-> "rejected", file |-> f]]
              /\ lastOp' = "uploadRejected"
       ELSE /\ uploads' = [uploads EXCEPT ![nUp + 1] = [pc |-> "reading", file |-> f]]
            /\ lastOp' = "uploadReading"
            /\ UNCHANGED error
    /\ UNCHANGED <<mounted, apiAvailable, image, imageFrom, loading, result,
                   showCamera, cameraError, streamRef, videoRef, nOpen,
                   nCall, call, vsrc, vowner, live, relayVars, fetches, nFetch>>

\* page.tsx 164-180: reader.onloadend of upload u creates the Image and sets
\* its src to the data URL read.
ReaderLoadEnd(u) ==
    /\ uploads[u].pc = "reading"
    /\ uploads' = [uploads EXCEPT ![u].pc = "decoding"]
    /\ lastOp' = "uploadRead"
    /\ UNCHANGED <<mounted, apiAvailable, image, imageFrom, loading, result,
                   error, showCamera, cameraError, streamRef, videoRef,
                   nOpen, nCall, call, vsrc, vowner, live, relayVars,
                   nUp, fetches, nFetch>>

\* page.tsx 166-178 with the raw data URL kept instead of the canvas export
LoadedImageRaw(f, canvas) ==
    IF canvas = "drawn" THEN ReaderResult(f) ELSE EmptyDataUrl

\* page.tsx 167-174: the data URL img.onload exports: the PNG encoding of
\* the decoded picture, or the empty data URL of a canvas the platform
\* could not allocate
LoadedImage(f, canvas) ==
    IF canvas = "drawn" THEN PngDataUrl(Decode(f.bytes)) ELSE EmptyDataUrl

\* page.tsx 166-178: img.onload of upload u.  With a 2d context the picture
\* is drawn and exported, the image is replaced and result and error are
\* cleared; without one nothing happens.
ImgLoad(u, canvas) ==
    /\ uploads[u].pc = "decoding"
    /\ IF canvas = "noContext"
         THEN /\ uploads' = [uploads EXCEPT ![u] = [IdleUpload EXCEPT !.pc = "dropped"]]
              /\ lastOp' = "uploadDropped"
              /\ UNCHANGED <<image, imageFrom, result, error>>
         ELSE /\ uploads' = [uploads EXCEPT ![u] = [IdleUpload EXCEPT !.pc = "loaded"]]
              /\ lastOp' = "uploadLoaded"
              /\ image' = SetState(image, LoadedImage(uploads[u].file, canvas))
              /\ imageFrom' = SetState(imageFrom, TypeString(uploads[u].file.type))
              /\ result' = SetState(result, Null)
              /\ error' = SetState(error, Null)
    /\ UNCHANGED <<mounted, apiAvailable, loading, showCamera, cameraError,
                   streamRef, videoRef, nOpen, nCall, call, vsrc, vowner,
                   live, relayVars, nUp, fetches, nFetch>>

\* page.tsx 165-180: the content of upload u does not decode; the Image has
\* no onerror handler and no state changes.
ImgError(u) ==
    /\ uploads[u].pc = "decoding"
    /\ uploads' = [uploads EXCEPT ![u] = [IdleUpload EXCEPT !.pc = "dropped"]]
    /\ lastOp' = "uploadDropped"
    /\ UNCHANGED <<mounted, apiAvailable, image, imageFrom, loading, result,
                   error, showCamera, cameraError, streamRef, videoRef,
                   nOpen, nCall, call, vsrc, vowner, live, relayVars,
                   nUp, fetches, nFetch>>

(* -------------------------- client: analyze --------------------------- *)

IdleFetch == [pc |-> "none", image |-> NullVal, from |-> "none", resp |-> NoResponse]

\* what a fetch resolves with when something between the client and the
\* relay answers in its place: a status and a body that is no JSON
GatewayResponse == [status |-> 502, field |-> "unparsable", value |-> Null]

\* page.tsx 193-199 as seen by fetch: a rejection carries this message
MsgFetchFailed == "Failed to fetch"

\* page.tsx 201: the message of the error response.json() rejects with
MsgBadJson == "Unexpected token < in JSON at position 0"

\* page.tsx 203: response.ok
IsOk(resp) == resp.status >= 200 /\ resp.status <= 299

\* AnalyzeErrorMessage ignoring the message of the relay
AnalyzeErrorGeneric(resp) == "Falha ao analisar a imagem"

\* page.tsx 204: data.error || 'Falha ao analisar a imagem'
AnalyzeErrorMessage(resp) ==
    IF resp.field = "error" /\ resp.value # "" /\ resp.value # Null
      THEN resp.value
      ELSE "Falha ao analisar a imagem"

\* ResultOf keeping only the verdict of the text
ResultVerdict(resp) ==
    IF resp.field # "result" THEN Null
    ELSE IF resp.value = "Sim. Produto vegano." THEN "Sim"
    ELSE resp.value

\* page.tsx 207: data.result
ResultOf(resp) == IF resp.field = "result" THEN resp.value ELSE Null

\* the analyze button without its disabled={loading}
CanAnalyzeWhileLoading == mounted /\ ~showCamera /\ ~Falsy(image)

\* page.tsx 286-303 and 187: the analyze button is rendered while an image
\* is held and the camera UI is closed, and is disabled while loading
CanAnalyze == mounted /\ ~showCamera /\ ~Falsy(image) /\ ~loading

\* page.tsx 186-199: the analyze button.  loading is set, error is cleared
\* and the request carrying the image is sent.
analyzeImage ==
    /\ CanAnalyze
    /\ nFetch < MaxRequests
    /\ nFetch' = nFetch + 1
    /\ loading' = TRUE
    /\ error' = Null
    /\ fetches' = [fetches EXCEPT ![nFetch + 1] =
                     [pc |-> "sent", image |-> image, from |-> imageFrom,
                      resp |-> NoResponse]]
    /\ lastOp' = "analyzeSent"
    /\ UNCHANGED <<mounted, apiAvailable, image, imageFrom, result,
                   showCamera, cameraError, streamRef, videoRef, nOpen,
                   nCall, call, vsrc, vowner, live, relayVars, uploads, nUp>>

\* page.tsx 193-199 and README.md 90-92: the request of call k reaches the
\* relay, its body being the JSON text of { image }.
Deliver(k) ==
    /\ fetches[k].pc = "sent"
    /\ reqs[k].pc = "none"
    /\ nReq' = nReq + 1
    /\ reqs' = [reqs EXCEPT ![k] =
                  [IdleReq EXCEPT !.pc = "json",
                                  !.body = [json |-> "object",
                                            image |-> fetches[k].image]]]
    /\ UNCHANGED <<clientVars, flowVars, imageFrom>>

\* page.tsx 193-201: fetch of call k resolves with the answer of the relay
FetchResponds(k) ==
    /\ fetches[k].pc = "sent"
    /\ reqs[k].pc = "done"
    /\ fetches' = [fetches EXCEPT ![k].pc = "json", ![k].resp = reqs[k].resp]
    /\ lastOp' = "analyzeResponse"
    /\ UNCHANGED <<mounted, apiAvailable, image, imageFrom, loading, result,
                   error, showCamera, cameraError, streamRef, videoRef,
                   nOpen, nCall, call, vsrc, vowner, live, relayVars,
                   uploads, nUp, nFetch>>

\* page.tsx 193-201: fetch of call k resolves with an answer that is not the
\* relay's
FetchGateway(k) ==
    /\ fetches[k].pc = "sent"
    /\ fetches' = [fetches EXCEPT ![k].pc = "json", ![k].resp = GatewayResponse]
    /\ lastOp' = "analyzeResponse"
    /\ UNCHANGED <<mounted, apiAvailable, image, imageFrom, loading, result,
                   error, showCamera, cameraError, streamRef, videoRef,
                   nOpen, nCall, call, vsrc, vowner, live, relayVars,
                   uploads, nUp, nFetch>>

\* a fetch rejection handled without the finally block
FetchFailsNoFinally(k) ==
    /\ fetches[k].pc = "sent"
    /\ fetches' = [fetches EXCEPT ![k] = [IdleFetch EXCEPT !.pc = "done"]]
    /\ error' = SetState(error, MsgFetchFailed)
    /\ lastOp' = "analyzeFailed"
    /\ UNCHANGED <<mounted, apiAvailable, image, imageFrom, result, loading,
                   showCamera, cameraError, streamRef, videoRef, nOpen,
                   nCall, call, vsrc, vowner, live, relayVars, uploads,
                   nUp, nFetch>>

\* page.tsx 193, 208-212: fetch of call k rejects
FetchFails(k) ==
    /\ fetches[k].pc = "sent"
    /\ fetches' = [fetches EXCEPT ![k] = [IdleFetch EXCEPT !.pc = "done"]]
    /\ error' = SetState(error, MsgFetchFailed)
    /\ loading' = SetState(loading, FALSE)
    /\ lastOp' = "analyzeFailed"
    /\ UNCHANGED <<mounted, apiAvailable, image, imageFrom, result,
                   showCamera, cameraError, streamRef, videoRef, nOpen,
                   nCall, call, vsrc, vowner, live, relayVars, uploads,
                   nUp, nFetch>>

\* page.tsx 201-212: response.json() of call k settles; the result is set on
\* an ok status, the error otherwise, and loading is reset.
JsonSettles(k) ==
    /\ fetches[k].pc = "json"
    /\ fetches' = [fetches EXCEPT ![k] = [IdleFetch EXCEPT !.pc = "done"]]
    /\ loading' = SetState(loading, FALSE)
    /\ IF fetches[k].resp.field = "unparsable"
         THEN /\ error' = SetState(error, MsgBadJson)
              /\ lastOp' = "analyzeFailed"
              /\ UNCHANGED result
       ELSE IF ~IsOk(fetches[k].resp)
         THEN /\ error' = SetState(error, AnalyzeErrorMessage(fetches[k].resp))
              /\ lastOp' = "analyzeFailed"
              /\ UNCHANGED result
       ELSE /\ result' = SetState(result, ResultOf(fetches[k].resp))
            /\ lastOp' = "analyzeDone"
            /\ UNCHANGED error
    /\ UNCHANGED <<mounted, apiAvailable, image, imageFrom, showCamera,
                   cameraError, streamRef, videoRef, nOpen, nCall, call,
                   vsrc, vowner, live, relayVars, uploads, nUp, nFetch>>

(* --------------------------- specifications --------------------------- *)

Init ==
    /\ mounted = TRUE
    /\ apiAvailable \in BOOLEAN
    /\ image = NullVal
    /\ loading = FALSE
    /\ result = Null
    /\ error = Null
    /\ showCamera = FALSE
    /\ cameraError = Null
    /\ streamRef = NoRef
    /\ videoRef = NoRef
    /\ nOpen = 0
    /\ nCall = 0
    /\ call = [i \in Ids |-> [pc |-> "none", video |-> NoRef]]
    /\ vsrc = [v \in Ids |-> NoRef]
    /\ vowner = [v \in Ids |-> NoRef]
    /\ live = {}
    /\ lastOp = "init"
    /\ reqs = [r \in 1..MaxRequests |-> IdleReq]
    /\ nReq = 0
    /\ uploads = [u \in 1..MaxUploads |-> IdleUpload]
    /\ nUp = 0
    /\ fetches = [k \in 1..MaxRequests |-> IdleFetch]
    /\ nFetch = 0
    /\ imageFrom = "none"

Next ==
    \/ OpenCamera
    \/ CancelCamera
    \/ \E i \in Ids : GumResolve(i)
    \/ \E i \in Ids : \E err \in PlatformErrors : GumReject(i, err)
    \/ \E i \in Ids : PlayResolve(i)
    \/ \E i \in Ids : \E err \in PlatformErrors : PlayReject(i, err)
    \/ capturePhoto
    \/ Unmount

Spec == Init /\ [][Next]_vars

\* page.tsx 56: the getUserMedia promise of call i settles
GumSettles(i) == GumResolve(i) \/ \E err \in PlatformErrors : GumReject(i, err)

\* the camera with every getUserMedia request settling in the end; nothing
\* is assumed of the user or of the playback of a stream
FairSpec == Spec /\ \A i \in Ids : WF_vars(GumSettles(i))

RelayNext ==
    \/ \E b \in Bodies : RelayReceive(b)
    \/ \E r \in 1..MaxRequests : RelayValidate(r)
    \/ \E r \in 1..MaxRequests : \E o \in ModelOutcomes : RelaySettle(r, o)

RelaySpec == Init /\ [][RelayNext]_vars

\* the user has opened the camera, picked a file or pressed the analyze
\* button fewer than MaxUserActions times
WithinBudget == nOpen + nUp + nFetch < MaxUserActions

\* the error a rejected camera promise carries in the whole application
AppErrors == { [name |-> "NotAllowedError", message |-> "Permission denied"] }

\* the files picked in the whole application
AppFiles ==
    { [type |-> FileType("image", "jpeg"), bytes |-> "jpegA"],
      [type |-> FileType("image", "png"),  bytes |-> "pngB"],
      [type |-> FileType("text", "plain"), bytes |-> "textC"] }

\* what the model call comes back with in the whole application
AppOutcomes ==
    { [kind |-> "completion", text |-> "Sim. Produto vegano."],
      [kind |-> "completion", text |-> "Tire a foto novamente."],
      [kind |-> "throws", text |-> "Connection error."] }

\* the whole application while the component stays mounted: the component
\* with its camera, uploads and analyze requests, and the relay answering
\* those requests
AppNext ==
    \/ OpenCamera /\ WithinBudget
    \/ CancelCamera
    \/ \E i \in Ids : GumResolve(i)
    \/ \E i \in Ids : \E err \in AppErrors : GumReject(i, err)
    \/ \E i \in Ids : PlayResolve(i)
    \/ \E i \in Ids : \E err \in AppErrors : PlayReject(i, err)
    \/ capturePhoto
    \/ \E f \in AppFiles : handleImageUpload(f) /\ WithinBudget
    \/ \E u \in 1..MaxUploads : ReaderLoadEnd(u)
    \/ \E u \in 1..MaxUploads : \E c \in {"drawn", "noContext", "unallocated"} : ImgLoad(u, c)
    \/ \E u \in 1..MaxUploads : ImgError(u)
    \/ analyzeImage /\ WithinBudget
    \/ \E k \in 1..MaxRequests : Deliver(k)
    \/ \E k \in 1..MaxRequests : RelayValidate(k)
    \/ \E k \in 1..MaxRequests : \E o \in AppOutcomes : RelaySettle(k, o)
    \/ \E k \in 1..MaxRequests : FetchResponds(k)
    \/ \E k \in 1..MaxRequests : FetchGateway(k)
    \/ \E k \in 1..MaxRequests : FetchFails(k)
    \/ \E k \in 1..MaxRequests : JsonSettles(k)

AppSpec == Init /\ [][AppNext]_vars

\* uploads and analyze requests with the camera left closed, over every
\* kind of file
UploadNext ==
    \/ \E f \in Files : handleImageUpload(f) /\ WithinBudget
    \/ \E u \in 1..MaxUploads : ReaderLoadEnd(u)
    \/ \E u \in 1..MaxUploads : \E c \in {"drawn", "noContext", "unallocated"} : ImgLoad(u, c)
    \/ \E u \in 1..MaxUploads : ImgError(u)
    \/ analyzeImage /\ WithinBudget
    \/ \E k \in 1..MaxRequests : Deliver(k)
    \/ \E k \in 1..MaxRequests : RelayValidate(k)
    \/ \E k \in 1..MaxRequests : \E o \in AppOutcomes : RelaySettle(k, o)
    \/ \E k \in 1..MaxRequests : FetchResponds(k)
    \/ \E k \in 1..MaxRequests : FetchGateway(k)
    \/ \E k \in 1..MaxRequests : FetchFails(k)
    \/ \E k \in 1..MaxRequests : JsonSettles(k)

UploadSpec == Init /\ [][UploadNext]_vars

\* page.tsx 193-201: the HTTP call of request k settles: fetch resolves with
\* the relay's or a gateway's response or rejects, and the body read of
\* response.json() settles
FetchSettles(k) ==
    FetchResponds(k) \/ FetchGateway(k) \/ FetchFails(k) \/ JsonSettles(k)

\* uploads and analyze requests with the camera left closed
AnalyzeNext ==
    \/ \E f \in AppFiles : handleImageUpload(f) /\ WithinBudget
    \/ \E u \in 1..MaxUploads : ReaderLoadEnd(u)
    \/ \E u \in 1..MaxUploads : \E c \in {"drawn", "noContext"} : ImgLoad(u, c)
    \/ \E u \in 1..MaxUploads : ImgError(u)
    \/ analyzeImage /\ WithinBudget
    \/ \E k \in 1..MaxRequests : Deliver(k)
    \/ \E k \in 1..MaxRequests : RelayValidate(k)
    \/ \E k \in 1..MaxRequests : \E o \in AppOutcomes : RelaySettle(k, o)
    \/ \E k \in 1..MaxRequests : FetchResponds(k)
    \/ \E k \in 1..MaxRequests : FetchGateway(k)
    \/ \E k \in 1..MaxRequests : FetchFails(k)
    \/ \E k \in 1..MaxRequests : JsonSettles(k)

\* the same, with every HTTP call settling
AnalyzeFairSpec ==
    /\ Init
    /\ [][AnalyzeNext]_vars
    /\ \A k \in 1..MaxRequests : WF_vars(FetchSettles(k))


(* ------------------------------ claims -------------------------------- *)

\* the camera states of the specification, read off the UI and the handle
Idle == ~showCamera

Requesting == showCamera /\ streamRef = NoRef

Active == showCamera /\ streamRef # NoRef

\* C1: at most one stream obtained by the component has tracks that have
\* not been stopped, in every reachable state.
C1_AtMostOneLiveStream == Cardinality(live) <= 1

\* C2: whenever the camera UI of the mounted component is closed, streamRef
\* is null and no stream the component acquired has live tracks.
C2_ClosedCameraHoldsNothing ==
    (mounted /\ ~showCamera) => (streamRef = NoRef /\ live = {})

\* C3: after the component is unmounted no stream it acquired has live
\* tracks, a stream whose request resolves after the unmount included.
C3_NoLiveStreamAfterUnmount == ~mounted => live = {}

\* C4: after any failure of Open camera the camera UI is closed, streamRef is
\* null, cameraError is set, and no stream obtained by a failed attempt has
\* live tracks.
C4_FailedOpenRetainsNothing ==
    /\ (mounted /\ lastOp \in {"startCameraFailed", "openCameraFailed"})
          => (~showCamera /\ streamRef = NoRef /\ cameraError # Null)
    /\ \A i \in Ids : call[i].pc = "failed" => i \notin live

\* C5: the camera follows Idle -> Requesting -> Active -> Idle: Active is
\* entered only from Requesting; a failure of startCamera (Failed) happens
\* only in Requesting and ends in Idle; Requesting is left only to Active or
\* through Failed; Active -> Idle happens only on capture, cancel or unmount.
C5_CameraStateMachine ==
    [][ (mounted /\ mounted') =>
          /\ (Active' /\ ~Active) => Requesting
          /\ (lastOp' = "startCameraFailed") => (Requesting /\ Idle')
          /\ (Requesting /\ ~Requesting')
                => (Active' \/ lastOp' \in {"startCameraFailed", "openCameraFailed"})
          /\ (Active /\ Idle') => lastOp' \in {"captured", "stopCamera"} ]_vars

\* the state stopCamera leaves is one a further stopCamera would not change
StopCameraFixpoint ==
    /\ StopLive = live
    /\ StopVsrc = vsrc
    /\ streamRef = NoRef
    /\ videoRef = NoRef
    /\ ~showCamera
    /\ cameraError = Null

\* C6 as stated: stopCamera invoked while streamRef is null leaves
\* showCamera, cameraError, error, image, result, loading and streamRef
\* unchanged, and invoking it twice leaves the same state as once.
C6_StopCameraNoOp ==
    [][ (lastOp' = "stopCamera")
          => /\ StopCameraFixpoint'
             /\ (streamRef = NoRef)
                   => UNCHANGED <<showCamera, cameraError, error, image,
                                  result, loading, streamRef>> ]_vars

\* C6 amended: stopCamera invoked while streamRef is null stops no track and
\* leaves error, image, result, loading and streamRef unchanged, but closes
\* the camera UI (showCamera false) and clears cameraError; invoking
\* stopCamera twice in a row leaves the same state as invoking it once.
C6_StopCameraIdempotent ==
    [][ (lastOp' \in {"stopCamera", "captured"})
          => /\ StopCameraFixpoint'
             /\ (lastOp' = "stopCamera" /\ streamRef = NoRef)
                   => /\ UNCHANGED <<error, image, result, loading,
                                     streamRef, live>>
                      /\ ~showCamera'
                      /\ cameraError' = Null ]_vars

\* stopCamera has just run on a camera that was still being requested
C6_Witness ==
    /\ lastOp = "stopCamera"
    /\ nCall = 1 /\ call[1].pc = "gum"
    /\ ~showCamera /\ streamRef = NoRef

\* the requests a claim about the relay speaks of
Rs == 1..MaxRequests

NoPayload(b) ==
    b.json = "object" /\ b.image \in {UndefinedVal, NullVal, StrVal(<< >>)}

\* C7: a request with no image payload (field absent, null or empty) is
\* answered 400 "No image provided" without a model call; the payload check
\* comes before the MIME-type check.
C7_MissingInput ==
    \A r \in Rs :
        (reqs[r].pc # "none" /\ NoPayload(reqs[r].body))
          => /\ reqs[r].pc \in {"json", "done"}
             /\ reqs[r].calls = 0
             /\ reqs[r].pc = "done"
                  => reqs[r].resp = Response(400, "error", "No image provided")

C7_Witness ==
    \E r \in Rs :
        /\ reqs[r].pc = "done"
        /\ reqs[r].body = [json |-> "object", image |-> StrVal(<< >>)]
        /\ reqs[r].resp.value = "No image provided"

\* the MIME type a data URI declares: the piece after "data:"
IsDataUri(v) ==
    v.t = "string" /\ Len(v.s) >= 3 /\ v.s[1] = "data" /\ v.s[2] = ":"

DeclaredType(v) == IF v.s[3] \in {";", ","} THEN "" ELSE v.s[3]

FourTypes == {"image/png", "image/jpeg", "image/gif", "image/webp"}

\* C8: a data URI whose declared MIME type is not one of the four supported
\* types is answered 400 with the message listing the four types, and the
\* model is not called.
C8_UnsupportedFormat ==
    \A r \in Rs :
        ( /\ reqs[r].pc # "none"
          /\ reqs[r].body.json = "object"
          /\ IsDataUri(reqs[r].body.image)
          /\ DeclaredType(reqs[r].body.image) \notin FourTypes )
          => /\ reqs[r].pc \in {"json", "done"}
             /\ reqs[r].calls = 0
             /\ reqs[r].pc = "done"
                  => reqs[r].resp =
                       Response(400, "error",
                                "Unsupported image format. Please use one of: image/png, image/jpeg, image/gif, image/webp")

C8_Witness ==
    \E r \in Rs :
        /\ reqs[r].pc = "done"
        /\ reqs[r].body.image = StrVal(DataUri("image/bmp", "AAAA"))
        /\ reqs[r].resp.status = 400

\* C9: an error raised by the model call (thrown, or a completion without
\* choices) is answered 500 "Failed to analyze image"; the body does not
\* carry the error's text, which is logged.
C9_AnalysisFailed ==
    \A r \in Rs :
        reqs[r].outcome.kind \in {"throws", "noChoices"}
          => /\ reqs[r].pc = "done"
             /\ reqs[r].resp = Response(500, "error", "Failed to analyze image")
             /\ reqs[r].resp.value # reqs[r].outcome.text
             /\ reqs[r].logged = reqs[r].outcome.text

C9_Witness ==
    \E r \in Rs :
        /\ reqs[r].outcome = [kind |-> "throws", text |-> "Connection error."]
        /\ reqs[r].resp.status = 500

ChecksPass(b) ==
    /\ b.json = "object"
    /\ b.image.t = "string" /\ b.image.s # << >>
    /\ IsSupported(MimeTypeOf(b.image))

\* C10: an invocation issues at most one model call: one when both checks
\* pass, none otherwise; a failed call is not retried, and a 200 answer is
\* the text of the invocation's own call.
C10_OneModelCall ==
    \A r \in Rs :
        /\ reqs[r].calls <= 1
        /\ reqs[r].pc \in {"calling", "done"}
             => reqs[r].calls = (IF ChecksPass(reqs[r].body) THEN 1 ELSE 0)
        /\ reqs[r].outcome.kind # "none" => reqs[r].pc = "done"
        /\ reqs[r].resp.status = 200
             => (reqs[r].calls = 1 /\ reqs[r].resp.value = reqs[r].outcome.text)

C10_Witness ==
    \E r \in Rs :
        /\ reqs[r].pc = "done"
        /\ reqs[r].calls = 1
        /\ reqs[r].outcome.kind = "throws"

\* response.json() of call k settles in this step
JsonSettling(k) == fetches[k].pc = "json" /\ fetches'[k].pc = "done"

\* C11: on success the text of the model reaches the user unmodified: the
\* relay answers 200 with result equal to the text of the completion, and
\* when the client has read that answer its result is that text exactly.
C11_TextReachesUser ==
    [][ \A k \in Rs :
          /\ (reqs[k].outcome.kind = "completion")'
                => (reqs[k].resp = Response(200, "result", reqs[k].outcome.text))'
          /\ (mounted /\ JsonSettling(k) /\ fetches[k].resp.status = 200)
                => /\ reqs[k].outcome.kind = "completion"
                   /\ result' = reqs[k].outcome.text ]_vars

C11_Witness ==
    /\ lastOp = "analyzeDone"
    /\ result = "Sim. Produto vegano."
    /\ \E k \in Rs : reqs[k].outcome.text = result /\ fetches[k].pc = "done"

\* the payload of a data URI: everything after its first comma
PayloadOf(s) ==
    IF IndexOf(s, ",") = 0 THEN << >> ELSE SubSeq(s, IndexOf(s, ",") + 1, Len(s))

\* C12: for every request that passes both checks, the one request sent to
\* the model carries the fixed prompt, the response cap, and the image
\* inlined with the MIME type and the base64 payload of the data URI the
\* caller sent.
C12_ModelRequestCarriesImage ==
    \A r \in Rs :
        (reqs[r].pc \in {"calling", "done"} /\ ChecksPass(reqs[r].body))
          => /\ reqs[r].calls = 1
             /\ reqs[r].sent.text = PROMPT
             /\ reqs[r].sent.max_tokens = 300
             /\ DeclaredType(StrVal(reqs[r].sent.url)) = DeclaredType(reqs[r].body.image)
             /\ PayloadOf(reqs[r].sent.url) = PayloadOf(reqs[r].body.image.s)

Us == 1..MaxUploads

\* a file has been picked in this step; it is the one of upload nUp + 1
Picking == nUp' = nUp + 1

\* C13: a picked file whose declared type does not start with image/ is
\* rejected with the invalid-file-type message, and an image of a type
\* outside the four supported ones with the message naming the four; a
\* rejected file never reaches the FileReader, the canvas or the network,
\* and the rejection leaves image and result unchanged.
C13_UploadRejected ==
    [][ /\ Picking =>
            LET f == uploads'[nUp + 1].file
                rejected == uploads'[nUp + 1].pc = "rejected" IN
            /\ f.type.top # "image"
                 => (rejected /\ error' = "Por favor, envie um arquivo de imagem")
            /\ (f.type.top = "image" /\ TypeString(f.type) \notin FourTypes)
                 => /\ rejected
                    /\ error' = "Formato de imagem não suportado. Por favor, use um dos seguintes: image/png, image/jpeg, image/gif, image/webp"
            /\ rejected => UNCHANGED <<image, result, loading, reqs, nReq,
                                       fetches, nFetch>>
        /\ \A u \in Us : uploads[u].pc = "rejected" => uploads'[u] = uploads[u] ]_vars

\* a text file was rejected while an image and its analysis were shown
C13_Witness ==
    /\ lastOp = "uploadRejected"
    /\ \E u \in Us : uploads[u].pc = "rejected" /\ uploads[u].file.type.top = "text"
    /\ error = "Por favor, envie um arquivo de imagem"
    /\ image # NullVal /\ result # Null

\* a data URL of the form data:image/png;base64,<payload>
IsPng(v) ==
    /\ v.t = "string" /\ Len(v.s) = 7
    /\ SubSeq(v.s, 1, 6) = <<"data", ":", "image/png", ";", "base64", ",">>

\* the decoding of upload u ends in this step
Finishing(u) ==
    uploads[u].pc = "decoding" /\ uploads'[u].pc \in {"loaded", "dropped"}

\* C14 as stated: every uploaded file of a supported type ends with the
\* image state holding a PNG-encoded image.
C14_AlwaysPng ==
    [][ \A u \in Us :
          (mounted /\ Finishing(u) /\ TypeString(uploads[u].file.type) \in FourTypes)
            => IsPng(image') ]_vars

\* C14 amended: when the content of a file of a supported type decodes and a
\* 2d context is obtained, the image state becomes the data URL the canvas
\* exports, which is the PNG encoding of the decoded picture whatever the
\* declared format was (or "data:," when the canvas cannot be allocated),
\* and result and error are cleared; when the content does not decode or no
\* context is obtained, image, result and error stay as they were.
C14_PngWhenDecoded ==
    [][ \A u \in Us :
          (mounted /\ Finishing(u))
            => /\ TypeString(uploads[u].file.type) \in FourTypes
               /\ \/ /\ uploads'[u].pc = "loaded"
                     /\ image' \in {PngDataUrl(Decode(uploads[u].file.bytes)),
                                    EmptyDataUrl}
                     /\ IsPng(image') \/ image' = StrVal(<<"data", ":", ",">>)
                     /\ result' = Null /\ error' = Null
                  \/ /\ uploads'[u].pc = "dropped"
                     /\ UNCHANGED <<image, result, error>> ]_vars

\* a JPEG file has just been loaded and the image is a PNG data URL
C14_Witness ==
    /\ lastOp = "uploadLoaded"
    /\ imageFrom = "image/jpeg"
    /\ image = StrVal(<<"data", ":", "image/png", ";", "base64", ",", "picA">>)

\* call k carries an image that came from an uploaded JPEG file
FromJpeg(k) == fetches[k].from = "image/jpeg"

\* C15 as stated: when a supported JPEG file is uploaded and then analyzed,
\* the relay receives image/jpeg base64 data.
C15_RelayReceivesJpeg ==
    \A k \in Rs :
        (FromJpeg(k) /\ reqs[k].pc # "none")
          => DeclaredType(reqs[k].body.image) = "image/jpeg"

\* C15 amended: when a supported JPEG file is uploaded, decoded and exported
\* by the canvas, and then analyzed, the relay receives image/png base64
\* data (the PNG re-encoding of the picture), both checks pass, exactly one
\* model call is issued, with the fixed prompt, and when the relay answers
\* 200 the client's result is the text the model returned.
C15_JpegUploadAnalyzed ==
    [][ \A k \in Rs :
          /\ ( (FromJpeg(k) /\ IsPng(fetches[k].image) /\ reqs[k].pc # "none")
                 => /\ reqs[k].body.image = fetches[k].image
                    /\ DeclaredType(reqs[k].body.image) = "image/png"
                    /\ PayloadOf(reqs[k].body.image.s) = <<Decode("jpegA")>>
                    /\ ChecksPass(reqs[k].body)
                    /\ reqs[k].pc # "json"
                         => /\ reqs[k].calls = 1
                            /\ reqs[k].sent.text = PROMPT
                            /\ reqs[k].sent.url = reqs[k].body.image.s )
          /\ ( /\ mounted /\ FromJpeg(k) /\ IsPng(fetches[k].image)
               /\ JsonSettling(k) /\ fetches[k].resp.status = 200 )
                 => result' = reqs[k].outcome.text ]_vars

\* the analysis of an uploaded JPEG has just been shown
C15_Witness ==
    /\ lastOp = "analyzeDone"
    /\ imageFrom = "image/jpeg"
    /\ \E k \in Rs :
         /\ reqs[k].body.image = PngDataUrl("picA")
         /\ reqs[k].calls = 1
         /\ result = reqs[k].outcome.text

\* C16: capturePhoto invoked without an active session (streamRef null or
\* no video element), or failing to create the canvas context, sets only the
\* error message: image, result, loading, showCamera, cameraError and
\* streamRef are unchanged, no track is stopped and an active session stays
\* active; a frame is captured only on an active session.
C16_CaptureFailureKeepsState ==
    [][ /\ lastOp' \in {"captureNotReady", "captureFailed"}
           => /\ UNCHANGED <<image, result, loading, showCamera, cameraError,
                             streamRef, videoRef, vsrc, live>>
              /\ Active => Active'
              /\ lastOp' = "captureNotReady"
                   => /\ error' = "Câmera não está pronta"
                      /\ (error' # error) => (streamRef = NoRef \/ videoRef = NoRef)
              /\ lastOp' = "captureFailed"
                   => /\ error' = "Falha ao capturar foto: Não foi possível obter o contexto do canvas"
                      /\ Active
        /\ (lastOp' = "captured" /\ showCamera)
           => (streamRef # NoRef /\ videoRef # NoRef) ]_vars

\* the canvas context could not be created while a camera session was
\* active and an analyzed image was shown
C16_Witness ==
    /\ lastOp = "captureFailed"
    /\ Active
    /\ image # NullVal /\ result # Null

\* C17: a successful capture on an active session sets the image to a PNG
\* encoding of the current frame and closes the camera in the same step:
\* afterwards no track is live, streamRef is null and showCamera is false.
C17_CaptureClosesCamera ==
    [][ (lastOp' = "captured" /\ showCamera)
          => /\ Active
             /\ IsPng(image')
             /\ live' = {}
             /\ streamRef' = NoRef
             /\ ~showCamera' ]_vars

\* C18: stopCamera, from whatever state it is invoked, stops every track of
\* the stream streamRef holds and leaves streamRef null, showCamera false
\* and cameraError null; invoked by the camera or Cancel button it leaves
\* image, result, error and loading unchanged, and invoked by a capture it
\* leaves result, error and loading unchanged.
C18_CloseCamera ==
    [][ (lastOp' \in {"stopCamera", "captured"})
          => /\ streamRef # NoRef => streamRef \notin live'
             /\ live' \subseteq live
             /\ streamRef' = NoRef
             /\ ~showCamera'
             /\ cameraError' = Null
             /\ UNCHANGED <<result, error, loading>>
             /\ lastOp' = "stopCamera" => UNCHANGED image ]_vars

\* Cancel was clicked on a started camera while an image was shown
C18_Witness ==
    /\ lastOp = "stopCamera"
    /\ \E i \in Ids : call[i].pc = "started" /\ i \notin live
    /\ streamRef = NoRef /\ ~showCamera
    /\ image # NullVal

\* the analyze requests of the client that have not settled
InFlight == { k \in Rs : fetches[k].pc \in {"sent", "json"} }

\* C19: at most one analyze request of the client is in flight at any time:
\* loading is true while one is, and no step taken while loading is true
\* starts a request, whatever the user does meanwhile (upload, opening and
\* closing the camera, capture).
C19_OneRequestInFlight ==
    [][ /\ loading => nFetch' = nFetch
        /\ Cardinality(InFlight') <= 1
        /\ InFlight' # {} => loading' ]_vars

\* a photo was captured while a request for an earlier image was in flight
C19_Witness ==
    /\ lastOp = "captured"
    /\ loading
    /\ \E k \in Rs : fetches[k].pc = "sent" /\ fetches[k].image # image

\* C20: when the client reads an answer of the relay that carries an error
\* status, it sets error to the message of the relay, leaves result as it
\* was and resets loading; no request is sent by that step, and a request is
\* only ever sent by the analyze button, one per click.
C20_RelayErrorShown ==
    [][ /\ \A k \in Rs :
             ( /\ mounted /\ JsonSettling(k)
               /\ fetches[k].resp.field = "error"
               /\ fetches[k].resp.status >= 400 )
               => /\ fetches[k].resp = reqs[k].resp
                  /\ error' = reqs[k].resp.value
                  /\ UNCHANGED result
                  /\ ~loading'
                  /\ UNCHANGED <<nFetch, nReq>>
        /\ nFetch' # nFetch => (lastOp' = "analyzeSent" /\ nFetch' = nFetch + 1)
        /\ nReq' <= nFetch' ]_vars

\* the relay answered 500 to the second request and the result of the first
\* is still shown
C20_Witness ==
    /\ lastOp = "analyzeFailed"
    /\ error = "Failed to analyze image"
    /\ result # Null
    /\ ~loading
    /\ \E k \in Rs : reqs[k].resp.status = 500 /\ fetches[k].pc = "done"

\* the values of lastOp that name a failed operation
FailedOps ==
    {"openCameraFailed", "startCameraFailed", "captureNotReady", "captureFailed",
     "uploadRejected", "uploadDropped", "analyzeFailed"}

\* C21: every failed operation (camera open, frame capture, file ingestion,
\* a decode failure and an unavailable canvas context included, analyze)
\* leaves error or cameraError non-null and the component mounted.
C21_FailureShowsMessage ==
    [][ (mounted /\ lastOp' \in FailedOps)
          => /\ error' # Null \/ cameraError' # Null
             /\ mounted' ]_vars

\* C22: the image state is always null or a PNG data URI, every analyze
\* request of the client carries a non-empty image declaring image/png, and
\* no request of the client is answered 400 by the relay.
C22_CanonicalEncoding ==
    /\ image = NullVal \/ IsPng(image)
    /\ \A k \in Rs :
         /\ fetches[k].pc \in {"sent", "json"} => IsPng(fetches[k].image)
         /\ reqs[k].pc # "none" => IsPng(reqs[k].body.image)
         /\ reqs[k].resp.status # 400

\* C23: the relay answers 500 only when the model call was issued and
\* failed; a request that fails a precondition (absent image, unparsable
\* body, non-string image, unsupported type) is answered 400.
C23_ServerErrorOnlyDownstream ==
    \A r \in Rs :
        reqs[r].pc = "done"
          => /\ reqs[r].resp.status = 500
                  => (reqs[r].calls = 1 /\ reqs[r].outcome.kind \in {"throws", "noChoices"})
             /\ reqs[r].calls = 0 => reqs[r].resp.status = 400

\* the answer an invocation owes to its own body and to the outcome of its
\* own model call
OwnAnswer(req) ==
    IF req.body.json # "object"
      THEN Response(500, "error", "Failed to analyze image")
    ELSE IF Falsy(req.body.image)
      THEN Response(400, "error", "No image provided")
    ELSE IF req.body.image.t # "string"
      THEN Response(500, "error", "Failed to analyze image")
    ELSE IF ~IsSupported(MimeTypeOf(req.body.image))
      THEN Response(400, "error", MsgUnsupported)
    ELSE IF req.outcome.kind = "completion"
      THEN Response(200, "result", req.outcome.text)
      ELSE Response(500, "error", "Failed to analyze image")

\* C24: concurrent invocations of the relay are independent: under every
\* interleaving, the answer of an invocation is the one its own body and
\* the outcome of its own model call determine, and the image it sent to
\* the model is its own.
C24_InvocationsIndependent ==
    \A r \in Rs :
        /\ reqs[r].pc = "done" => reqs[r].resp = OwnAnswer(reqs[r])
        /\ reqs[r].calls = 1
             => reqs[r].sent.url = ImageUrl(MimeTypeOf(reqs[r].body.image),
                                            Base64Of(reqs[r].body.image))

\* two invocations with different images were both answered 200, each with
\* another text
C24_Witness ==
    \E r, q \in Rs :
        /\ reqs[r].resp.status = 200 /\ reqs[q].resp.status = 200
        /\ reqs[r].body.image # reqs[q].body.image
        /\ reqs[r].resp.value # reqs[q].resp.value

\* the errors startCamera can catch
CaughtErrors == PlatformErrors \cup {ApiUnavailableError, VideoMissingError}

\* the message the claim assigns to an error
ClassifiedMessage(err) ==
    CASE err.name = "NotAllowedError" ->
           "Não foi possível acessar a câmera. Por favor, certifique-se de que você concedeu permissões para a câmera."
      [] err.name = "NotFoundError" ->
           "Não foi possível acessar a câmera. Nenhuma câmera encontrada no seu dispositivo."
      [] err.name = "NotReadableError" ->
           "Não foi possível acessar a câmera. A câmera já está em uso por outro aplicativo."
      [] OTHER -> "Não foi possível acessar a câmera. " \o err.message

\* C25: NotAllowedError, NotFoundError and NotReadableError yield the
\* permission, no-camera and already-in-use messages, which are pairwise
\* distinct, and any other error yields the generic prefix followed by the
\* text of that error; a camera error shown is always one of these.
C25_ClassifiedMessages ==
    /\ \A e \in CaughtErrors : CameraErrorMessage(e) = ClassifiedMessage(e)
    /\ \A e1, e2 \in CaughtErrors :
         e1 # e2 => CameraErrorMessage(e1) # CameraErrorMessage(e2)
    /\ cameraError # Null
         => \E e \in CaughtErrors : cameraError = ClassifiedMessage(e)

\* a getUserMedia request was refused and the permission message is shown
C25_Witness ==
    /\ lastOp = "startCameraFailed"
    /\ ~showCamera
    /\ cameraError = "Não foi possível acessar a câmera. Por favor, certifique-se de que você concedeu permissões para a câmera."

\* C26: a displayed result belongs to the image currently held: replacing
\* the image by upload or by capture clears result, and a result is only
\* ever set from the answer to a request that was sent for the current
\* image.
C26_ResultBelongsToImage ==
    [][ mounted =>
          /\ image' # image => result' = Null
          /\ \A k \in Rs :
               (JsonSettling(k) /\ result' # result) => fetches[k].image = image ]_vars

\* call i of startCamera is still waiting for getUserMedia or for playback
Pending(i) == call[i].pc \in {"gum", "play"}

\* call i was abandoned: it is pending although the camera UI it was
\* started for has been closed since (a newer call exists, or it is the only
\* call and the UI is closed, which only Cancel can have done)
Cancelled(i) == Pending(i) /\ (i < nCall \/ (nCall = 1 /\ ~showCamera))

\* C27: a camera request the user has cancelled has no later effect on the
\* UI: the step in which its getUserMedia or playback promise settles leaves
\* cameraError, streamRef and showCamera as they were.
C27_CancelledRequestInert ==
    [][ \A i \in Ids :
          (mounted /\ Cancelled(i) /\ call'[i].pc # call[i].pc)
            => UNCHANGED <<cameraError, streamRef, showCamera>> ]_vars

\* C28: at most one getUserMedia request is pending at any time, and
\* startCamera is never started while an earlier call is still being
\* requested or a session is active.
C28_OneRequestPending ==
    [][ /\ Cardinality({ i \in Ids : call[i].pc = "gum" }') <= 1
        /\ nCall' # nCall
             => (streamRef = NoRef /\ \A i \in Ids : ~Pending(i)) ]_vars

\* C29: error and result are never both non-null: after a failed analyze
\* attempt no result of an earlier attempt is displayed next to the message.
C29_ErrorExcludesResult == ~(error # Null /\ result # Null)

\* C30 as stated: provided getUserMedia settles, the camera never stays in
\* Requesting (showCamera true, streamRef null): it becomes Active or
\* returns to Idle.
C30_LeavesRequesting ==
    (mounted /\ Requesting) ~> (~mounted \/ ~Requesting)

\* a call of startCamera waits for the playback of its stream to start
AwaitingPlayback == \E i \in Ids : call[i].pc = "play"

\* C30 amended: provided getUserMedia settles, the camera leaves Requesting
\* (to Active, or to Idle by a failure or Cancel) or is left waiting for the
\* playback promise of a call, which startCamera awaits without a timeout.
C30_LeavesRequestingOrAwaitsPlayback ==
    (mounted /\ Requesting) ~> (~mounted \/ ~Requesting \/ AwaitingPlayback)

\* a getUserMedia request was refused and the camera is back in Idle
C30_Witness ==
    /\ lastOp = "startCameraFailed"
    /\ nCall = 1 /\ call[1].pc = "failed"
    /\ Idle /\ cameraError # Null

\* the step on which analyze request k stops being in flight
Completing(k) == fetches[k].pc \in {"sent", "json"} /\ fetches'[k].pc = "done"

\* what the completing step of request k has to leave in result or error
CompletedBy(k) ==
    IF fetches[k].pc = "sent" THEN error' = MsgFetchFailed
    ELSE IF fetches[k].resp.field = "unparsable" THEN error' = MsgBadJson
    ELSE IF ~IsOk(fetches[k].resp)
      THEN error' = AnalyzeErrorMessage(fetches[k].resp) /\ error' # Null
    ELSE result' = ResultOf(fetches[k].resp) /\ result' # Null

\* C31: every analyze request completes once its HTTP call settles: loading
\* is set by the request and returns to false, on success and on an error
\* status, a network error and an unparsable body alike, and the step that
\* resets loading has set result or error from that request's outcome.
C31_AnalyzeCompletes ==
    /\ [][ /\ lastOp' = "analyzeSent" => loading'
           /\ \A k \in 1..MaxRequests :
                Completing(k) => (~loading' /\ CompletedBy(k)) ]_vars
    /\ loading ~> ~loading

C31_Witness ==
    /\ ~loading
    /\ nFetch >= 1
    /\ \A k \in 1..nFetch : fetches[k].pc = "done"
    /\ lastOp = "analyzeDone"
    /\ error = Null
    /\ result # Null

\* the four answers of the relay
FourShapes ==
    { Response(200, "result", o.text) : o \in {m \in ModelOutcomes : m.kind = "completion"} }
      \cup { Response(400, "error", "No image provided"),
             Response(400, "error",
                      "Unsupported image format. Please use one of: image/png, image/jpeg, image/gif, image/webp"),
             Response(500, "error", "Failed to analyze image") }

\* C32: the relay is total: an invocation, whatever its body, is reading
\* the body, awaiting the model call or answered, and never left by an
\* exception; every step of the handler is defined for every body and every
\* outcome of the model call and ends in an answer; an answered invocation
\* has one of the four shapes (200 with result, 400 no image, 400
\* unsupported format, 500 generic failure), an unanswered one has sent
\* nothing, and an answer once sent is never replaced.
C32_RelayTotal ==
    /\ [](\A r \in Rs :
            /\ reqs[r].pc \in {"none", "json", "calling", "done"}
            /\ reqs[r].pc = "done" <=> reqs[r].resp # NoResponse
            /\ reqs[r].pc = "done" => reqs[r].resp \in FourShapes
            /\ reqs[r].pc = "json"
                 => Validate(reqs[r]).pc \in {"calling", "done"}
            /\ reqs[r].pc = "calling"
                 => \A o \in ModelOutcomes : Settle(reqs[r], o).pc = "done")
    /\ [][ \A r \in Rs : reqs[r].pc = "done" => reqs'[r] = reqs[r] ]_vars

C32_Witness ==
    \E r \in Rs :
        /\ reqs[r].pc = "done"
        /\ reqs[r].body.json = "invalid"
        /\ reqs[r].resp = Response(500, "error", "Failed to analyze image")
        /\ \E q \in Rs : reqs[q].pc = "done" /\ reqs[q].resp.status = 200
====
